---- MODULE Spec2Model ----
(***************************************************************************)
(* Model of src/WingetLoop.py: the report parser parse_winget_output and   *)
(* the selection loop of run_winget_upgrade_manager.                       *)
(*                                                                         *)
(* Python strings are modelled as sequences of one-character strings, so   *)
(* that strip(), startswith(), split(), re.split() and int() are computed  *)
(* character by character, the way the interpreter computes them.          *)
(***************************************************************************)
EXTENDS Integers, Sequences, FiniteSets, TLC

VARIABLES
    pc,                  \* position in run_winget_upgrade_manager / parse call
    packages_to_upgrade, \* the WorkingList (WingetLoop.py:71)
    line_read,           \* the line input() last returned, as typed
    user_input,          \* user_input: that line stripped (WingetLoop.py:98)
    invocations,         \* history: the subprocess.run calls made so far
    prompts,             \* history: number of input() calls made so far
    reads,               \* history: number of input() calls that returned a line
    message,             \* the last message printed
    returncode,          \* history: exit status of the last upgrade call that returned
    initial_packages,    \* history: the list parse_winget_output returned at line 71
    output,              \* parse_winget_output: its argument
    packages,            \* parse_winget_output: its result
    data_start_index     \* parse_winget_output: its local of that name

vars == <<pc, packages_to_upgrade, line_read, user_input, invocations, prompts,
          reads, message, returncode, initial_packages, output, packages,
          data_start_index>>

loopVars == <<pc, packages_to_upgrade, line_read, user_input, invocations,
              prompts, reads, message, returncode, initial_packages>>

parseVars == <<output, packages, data_start_index>>

-----------------------------------------------------------------------------
(* Bounds of the model.                                                    *)

\* Largest number of lines in a report.
MaxLines == 4

\* Largest number of lines in a report read by WingetBasic.
MaxBasicLines == 2

\* The input() calls of a run that may take an invalid line or fail are its
\* first MaxPrompts; a later one takes a valid selection.
MaxPrompts == 3

-----------------------------------------------------------------------------
(* Python string primitives.                                               *)

\* The whitespace characters of the model's alphabet (str.strip() with no
\* argument and the regex class \s both take all of them).
Whitespace == {" ", "\t", "\r", "\n"}

RECURSIVE LStrip(_)
LStrip(s) ==
    IF s # <<>> /\ Head(s) \in Whitespace THEN LStrip(Tail(s)) ELSE s

RECURSIVE RStrip(_)
RStrip(s) ==
    IF s # <<>> /\ s[Len(s)] \in Whitespace
    THEN RStrip(SubSeq(s, 1, Len(s) - 1))
    ELSE s

\* str.strip()
Strip(s) == RStrip(LStrip(s))

\* str.startswith(prefix)
StartsWith(s, prefix) ==
    /\ Len(prefix) <= Len(s)
    /\ SubSeq(s, 1, Len(prefix)) = prefix

\* str.split('\n'): always at least one piece; pieces may be empty.
RECURSIVE SplitFrom(_, _, _, _)
SplitFrom(s, i, cur, acc) ==
    IF i > Len(s) THEN Append(acc, cur)
    ELSE IF s[i] = "\n" THEN SplitFrom(s, i + 1, <<>>, Append(acc, cur))
    ELSE SplitFrom(s, i + 1, Append(cur, s[i]), acc)

SplitLines(s) == SplitFrom(s, 1, <<>>, <<>>)

\* First index >= i of s that holds no whitespace, or Len(s) + 1.
RECURSIVE SkipWhitespace(_, _)
SkipWhitespace(s, i) ==
    IF i <= Len(s) /\ s[i] \in Whitespace THEN SkipWhitespace(s, i + 1) ELSE i

\* re.split(r'\s{2,}', line): the leftmost, greedy runs of two or more
\* whitespace characters are the delimiters; a single one stays in its field.
RECURSIVE ReSplitFrom(_, _, _, _)
ReSplitFrom(s, i, cur, acc) ==
    IF i > Len(s) THEN Append(acc, cur)
    ELSE IF /\ s[i] \in Whitespace
            /\ i + 1 <= Len(s)
            /\ s[i + 1] \in Whitespace
         THEN ReSplitFrom(s, SkipWhitespace(s, i), <<>>, Append(acc, cur))
         ELSE ReSplitFrom(s, i + 1, Append(cur, s[i]), acc)

ReSplit(line) == ReSplitFrom(line, 1, <<>>, <<>>)

-----------------------------------------------------------------------------
(* parse_winget_output                                                     *)

SepDashes == <<"-", "-", "-">>
SepEquals == <<"=", "=", "=", "=">>
FoundWord == <<"F", "o", "u", "n", "d">>

\* Mutant of IsSeparator: three '=' taken for a separator as well.
IsSeparatorThreeEquals(line) ==
    \/ StartsWith(Strip(line), <<"-", "-", "-">>)
    \/ StartsWith(Strip(line), <<"=", "=", "=">>)

\* line.strip().startswith(('---', '===='))
IsSeparator(line) ==
    \/ StartsWith(Strip(line), SepDashes)
    \/ StartsWith(Strip(line), SepEquals)

\* The loop of lines 15-19: i + 1 for the first separator line, else -1.
RECURSIVE FindDataStart(_, _)
FindDataStart(lines, i) ==
    IF i > Len(lines) THEN -1
    ELSE IF IsSeparator(lines[i]) THEN i
    ELSE FindDataStart(lines, i + 1)

\* `not line or line.startswith('Found')` on the stripped line (line 27).
IsSkipped(stripped) ==
    \/ stripped = <<>>
    \/ StartsWith(stripped, FoundWord)

\* len(parts) >= 5 (line 34)
MinParts == 5

\* Mutant of EnoughParts: the source column not required.
EnoughPartsWithoutSource(parts) == Len(parts) >= MinParts - 1

EnoughParts(parts) == Len(parts) >= MinParts

\* Mutant of ParseRow: the available version read one column to the right.
ParseRowSourceAsAvailable(rawline) ==
    LET line  == Strip(rawline)
        parts == ReSplit(line)
    IN  IF IsSkipped(line) \/ ~EnoughParts(parts) THEN <<>>
        ELSE IF Strip(parts[1]) = <<>> \/ Strip(parts[2]) = <<>> THEN <<>>
        ELSE << [name      |-> Strip(parts[1]),
                 id        |-> Strip(parts[2]),
                 version   |-> Strip(parts[3]),
                 available |-> Strip(parts[5])] >>

\* Mutant of ParseRow: the line split as it stands, without the strip of
\* line 26 and without the test of line 38.
ParseRowUnstripped(rawline) ==
    LET parts == ReSplit(rawline)
    IN  IF IsSkipped(Strip(rawline)) \/ ~EnoughParts(parts) THEN <<>>
        ELSE << [name      |-> Strip(parts[1]),
                 id        |-> Strip(parts[2]),
                 version   |-> Strip(parts[3]),
                 available |-> Strip(parts[4])] >>

\* The body of the loop of lines 25-44 for one line: the candidates it
\* appends (none or one).
ParseRow(rawline) ==
    LET line  == Strip(rawline)
        parts == ReSplit(line)
    IN  IF IsSkipped(line) THEN <<>>
        ELSE IF ~EnoughParts(parts) THEN <<>>
        ELSE LET name   == Strip(parts[1])
                 pkg_id == Strip(parts[2])
             IN  IF name # <<>> /\ pkg_id # <<>>
                 THEN << [name      |-> name,
                          id        |-> pkg_id,
                          version   |-> Strip(parts[3]),
                          available |-> Strip(parts[4])] >>
                 ELSE <<>>

\* Mutant of ParseRows: a row that yields no candidate ends the loop
\* (`break` where the code goes on to the next line).
RECURSIVE ParseRowsStopAtShort(_, _)
ParseRowsStopAtShort(lines, from) ==
    IF from > Len(lines) THEN <<>>
    ELSE IF ParseRow(lines[from]) = <<>> THEN <<>>
    ELSE ParseRow(lines[from]) \o ParseRowsStopAtShort(lines, from + 1)

\* The loop of lines 25-44 over lines[from..].
RECURSIVE ParseRows(_, _)
ParseRows(lines, from) ==
    IF from > Len(lines) THEN <<>>
    ELSE ParseRow(lines[from]) \o ParseRows(lines, from + 1)

\* Lines of the report as the parser sees them (line 12).
ReportLines(text) == SplitLines(Strip(text))

\* data_start_index as a 0-based Python index (lines 15-19); the model's
\* sequences are 1-based, so the separator at 1-based position k gives k.
DataStartIndex(text) == FindDataStart(ReportLines(text), 1)

\* Mutant of parse_winget_output: data_start_index starts at 0 instead of
\* -1, so a report with no separator is read from its first line.
parse_winget_outputFromTop(text) ==
    LET lines == ReportLines(text)
        start == DataStartIndex(text)
    IN  IF start = -1 THEN ParseRows(lines, 1) ELSE ParseRows(lines, start + 1)

parse_winget_output(text) ==
    LET lines == ReportLines(text)
        start == DataStartIndex(text)
    IN  IF start = -1 THEN <<>> ELSE ParseRows(lines, start + 1)

-----------------------------------------------------------------------------
(* Reports: the texts `winget upgrade` may write to stdout.                *)

Sp2 == <<" ", " ">>

\* "---"
LineDash3 == <<"-", "-", "-">>
\* "==="
LineEq3 == <<"=", "=", "=">>
\* " ====" with a carriage return, as in a CRLF report
LineEq4 == <<" ", "=", "=", "=", "=", "\r">>
\* "a  A  1  2  w"
RowA == <<"a">> \o Sp2 \o <<"A">> \o Sp2 \o <<"1">> \o Sp2 \o <<"2">> \o Sp2 \o <<"w">>
\* "  b c  B<tab><tab>3  4  w  x": indented by two spaces, a single space
\* inside the name, a delimiter of two tabs, six fields
RowB == <<" ", " ", "b", " ", "c">> \o Sp2 \o <<"B", "\t", "\t", "3">> \o Sp2 \o <<"4">>
            \o Sp2 \o <<"w">> \o Sp2 \o <<"x">>
\* "--  S  1  2": four fields, the first of two dashes
RowShort == <<"-", "-">> \o Sp2 \o <<"S">> \o Sp2 \o <<"1">> \o Sp2 \o <<"2">>
\* "Found  F  1  2  w": five fields, begins with "Found"
RowFound == FoundWord \o Sp2 \o <<"F">> \o Sp2 \o <<"1">> \o Sp2 \o <<"2">> \o Sp2 \o <<"w">>
\* "Foundry  G  1  2  w": five fields, a name that begins with "Found"
RowFoundry == FoundWord \o <<"r", "y">> \o Sp2 \o <<"G">> \o Sp2 \o <<"1">> \o Sp2
                  \o <<"2">> \o Sp2 \o <<"w">>
\* " ": a blank line
LineBlank == <<" ">>

LineVocab ==
    {LineDash3, LineEq3, LineEq4, RowA, RowB, RowShort, RowFound,
     RowFoundry, LineBlank}

\* '\n'.join(lines)
RECURSIVE JoinLines(_)
JoinLines(lines) ==
    IF lines = <<>> THEN <<>>
    ELSE IF Len(lines) = 1 THEN lines[1]
    ELSE lines[1] \o <<"\n">> \o JoinLines(Tail(lines))

SeqsUpTo(S, n) == UNION {[1..k -> S] : k \in 0..n}

\* Every report of at most MaxLines lines over the vocabulary.
Reports == {JoinLines(ls) : ls \in SeqsUpTo(LineVocab, MaxLines)}

\* "-----"
LineDash5 == <<"-", "-", "-", "-", "-">>
\* "Foo Bar  FooBar.Id  1.0  2.0  winget"
RowFooBar ==
    <<"F", "o", "o", " ", "B", "a", "r">> \o Sp2 \o <<"F", "o", "o", "B", "a", "r", ".", "I", "d">>
        \o Sp2 \o <<"1", ".", "0">> \o Sp2 \o <<"2", ".", "0">>
        \o Sp2 \o <<"w", "i", "n", "g", "e", "t">>
\* A report of a separator of five dashes and one row of full-length fields.
ExampleReport == JoinLines(<<LineDash5, RowFooBar>>)

-----------------------------------------------------------------------------
(* Console input: int(), lower() and the tests of lines 100-118.           *)

DigitChars == <<"0", "1", "2", "3", "4", "5", "6", "7", "8", "9">>

IsDigit(c) == \E i \in 1..Len(DigitChars) : DigitChars[i] = c

DigitValue(c) == (CHOOSE i \in 1..Len(DigitChars) : DigitChars[i] = c) - 1

\* str.lower() on the model's alphabet: the upper-case letters of the lines
\* a user may type.
LowerChar(c) ==
    CASE c = "C" -> "c"
      [] c = "X" -> "x"
      [] c = "Y" -> "y"
      [] c = "E" -> "e"
      [] c = "S" -> "s"
      [] c = "N" -> "n"
      [] c = "O" -> "o"
      [] OTHER -> c

Lower(s) == [i \in 1..Len(s) |-> LowerChar(s[i])]

\* The digits part of an int() literal: digits, with single underscores
\* allowed between digits.
IsDigitRun(body) ==
    /\ body # <<>>
    /\ IsDigit(body[1])
    /\ IsDigit(body[Len(body)])
    /\ \A i \in 1..Len(body) : IsDigit(body[i]) \/ body[i] = "_"
    /\ \A i \in 1..(Len(body) - 1) : ~(body[i] = "_" /\ body[i + 1] = "_")

\* The literal with its sign, if any, removed.
Unsigned(s) == IF s # <<>> /\ Head(s) \in {"+", "-"} THEN Tail(s) ELSE s

\* int(s) does not raise ValueError.
ParsesAsInt(s) == IsDigitRun(Unsigned(Strip(s)))

RECURSIVE DigitsValue(_, _)
DigitsValue(body, acc) ==
    IF body = <<>> THEN acc
    ELSE IF Head(body) = "_" THEN DigitsValue(Tail(body), acc)
    ELSE DigitsValue(Tail(body), 10 * acc + DigitValue(Head(body)))

\* int(s), for s with ParsesAsInt(s).
IntValue(s) ==
    LET t == Strip(s)
        v == DigitsValue(Unsigned(t), 0)
    IN  IF Head(t) = "-" THEN 0 - v ELSE v

\* Mutant of IsCancel: an empty line cancels as well.
IsCancelOrBlank(inp) == inp = <<>> \/ Lower(inp) = <<"c">>

\* Mutant of IsCancel: the comparison without lower().
IsCancelCaseSensitive(inp) == inp = <<"c">>

\* user_input.lower() == 'c' (line 100)
IsCancel(inp) == Lower(inp) = <<"c">>

\* Mutant of IsUpgradeAll: the comparison made on int(user_input).
IsUpgradeAllNumeric(inp) == ParsesAsInt(inp) /\ IntValue(inp) = 0

\* user_input == '0' (line 104)
IsUpgradeAll(inp) == inp = <<"0">>

\* 1 <= selection_index <= len(packages_to_upgrade) (line 118)
InRange(selection_index, list) ==
    1 <= selection_index /\ selection_index <= Len(list)

\* Mutant of Pop: nothing removed.
PopNothing(list, selection_index) == list

\* Mutant of Pop: the last entry moved into the place of the removed one.
PopSwapLast(list, selection_index) ==
    IF selection_index = Len(list) THEN SubSeq(list, 1, Len(list) - 1)
    ELSE SubSeq([list EXCEPT ![selection_index] = list[Len(list)]],
                1, Len(list) - 1)

\* Mutant of Pop: pop(selection_index), the 1-based number used as the
\* 0-based index (the last number wraps to pop the first entry's successor).
PopOffByOne(list, selection_index) ==
    IF selection_index < Len(list)
    THEN SubSeq(list, 1, selection_index)
            \o SubSeq(list, selection_index + 2, Len(list))
    ELSE SubSeq(list, 1, Len(list) - 1)

\* packages_to_upgrade.pop(selection_index - 1) (line 134): the list left.
Pop(list, selection_index) ==
    SubSeq(list, 1, selection_index - 1)
        \o SubSeq(list, selection_index + 1, Len(list))

\* The lines a user may type at the prompt.
Inputs ==
    { <<"c">>, <<"C">>,
      <<"0">>, <<"0", " ">>, <<"0", "0">>,
      <<"1">>, <<"2">>, <<"3">>, <<"4">>, <<"5">>,
      <<"+", "2">>, <<"-", "1">>, <<"1", "_", "0">>,
      <<>>, <<"x">> }

-----------------------------------------------------------------------------
(* run_winget_upgrade_manager                                              *)

\* What a subprocess.run call can do: return a CompletedProcess, raise
\* FileNotFoundError, or raise another Exception.
Outcomes == {"returned", "not_found", "error"}

\* Exit statuses of an upgrade call that returned (check=False, and the
\* CompletedProcess dropped: never inspected).
ExitStatuses == {"zero", "nonzero"}

\* What result.stderr of the list call may hold.
StderrKinds == {"empty", "no_package_found", "other"}

\* result.stderr and "No package found matching input" not in result.stderr
ShowsWarning(stderr) == stderr = "other"

ListCall(outcome) == [form |-> "list", id |-> <<>>, outcome |-> outcome]
UpgradeAllCall(outcome) == [form |-> "all", id |-> <<>>, outcome |-> outcome]
\* Mutant of UpgradeOneCall: the command run without `--id <pkg_id>`, which
\* is the list form.
UpgradeOneCallWithoutId(pkg_id, outcome) ==
    [form |-> "list", id |-> <<>>, outcome |-> outcome]

UpgradeOneCall(pkg_id, outcome) == [form |-> "one", id |-> pkg_id, outcome |-> outcome]

\* The message the handlers of lines 146-150 print.
FailureMessage(outcome) ==
    IF outcome = "not_found" THEN "winget_not_found" ELSE "unexpected_error"

\* The lines of the reports the list call of a run writes to stdout: a
\* separator, two rows that parse and one that does not.
StdoutVocab == {LineDash3, RowA, RowB, RowShort}

\* result.stdout: every report of at most MaxLines such lines.
Stdouts == {JoinLines(ls) : ls \in SeqsUpTo(StdoutVocab, MaxLines)}

\* What line 71 can assign: parse_winget_output(result.stdout).
ParsedLists == {parse_winget_output(report) : report \in Stdouts}

\* Mutant of NothingToUpgrade: the early return of lines 73-77 never taken.
NeverNothingToUpgrade(list) == FALSE

\* `not packages_to_upgrade` (line 73)
NothingToUpgrade(list) == list = <<>>

\* Mutant of AfterFailure: the failure is reported inside the loop, which
\* goes on.
AfterFailureResumes == "Listing"

\* Where the run goes when a call raises: the handlers of lines 146-150
\* print and the function ends.
AfterFailure == "Done"

\* Mutant of AfterUpgradeAll: the `return` of line 114 left out.
AfterUpgradeAllContinues(status) == "Listing"

\* Where the run goes when `winget upgrade --all` returns (line 114); the
\* CompletedProcess is dropped, its status never read.
AfterUpgradeAll(status) == "Done"

\* Mutant of ListAfterUpgrade: the entry is removed only on exit status 0.
ListAfterUpgradeIfZero(list, selection_index, status) ==
    IF status = "zero" THEN Pop(list, selection_index) ELSE list

\* The list after `winget upgrade --id` returns (lines 125-134); the
\* CompletedProcess is dropped, its status never read.
ListAfterUpgrade(list, selection_index, status) == Pop(list, selection_index)

Init ==
    /\ pc = "Start"
    /\ packages_to_upgrade = <<>>
    /\ line_read = <<>>
    /\ user_input = <<>>
    /\ invocations = <<>>
    /\ prompts = 0
    /\ reads = 0
    /\ message = "none"
    /\ returncode = "none"
    /\ initial_packages = <<>>
    /\ output = <<>>
    /\ packages = <<>>
    /\ data_start_index = -1

\* Lines 54-56: not on Windows.
NotWindows ==
    /\ pc = "Start"
    /\ pc' = "Done"
    /\ message' = "not_windows"
    /\ UNCHANGED <<packages_to_upgrade, line_read, user_input, invocations,
                   prompts, reads, returncode, initial_packages>>
    /\ UNCHANGED parseVars

\* Lines 62-68 raise: the handlers of lines 146-150 end the run.
ListUpgradesFails ==
    /\ pc = "Start"
    /\ \E outcome \in Outcomes \ {"returned"} :
          /\ invocations' = Append(invocations, ListCall(outcome))
          /\ message' = FailureMessage(outcome)
    /\ pc' = AfterFailure
    /\ UNCHANGED <<packages_to_upgrade, line_read, user_input, prompts,
                   reads, returncode, initial_packages>>
    /\ UNCHANGED parseVars

\* Lines 62-77: the list call returns and the parser finds no candidate.
ListUpgradesEmpty ==
    /\ pc = "Start"
    /\ \E parsed \in ParsedLists : NothingToUpgrade(parsed)
    /\ invocations' = Append(invocations, ListCall("returned"))
    /\ packages_to_upgrade' = <<>>
    /\ initial_packages' = <<>>
    /\ message' = "no_upgrades_available"
    /\ pc' = "Done"
    /\ UNCHANGED <<line_read, user_input, prompts, reads, returncode>>
    /\ UNCHANGED parseVars

\* Lines 62-81: the list call returns, the parser finds candidates, the
\* loop is entered.
EnterLoop ==
    /\ pc = "Start"
    /\ \E parsed \in ParsedLists, stderr \in StderrKinds :
          /\ ~NothingToUpgrade(parsed)
          /\ packages_to_upgrade' = parsed
          /\ initial_packages' = parsed
          /\ message' = IF ShowsWarning(stderr) THEN "warning" ELSE "checking"
    /\ invocations' = Append(invocations, ListCall("returned"))
    /\ pc' = "Listing"
    /\ UNCHANGED <<line_read, user_input, prompts, reads, returncode>>
    /\ UNCHANGED parseVars

\* Line 98: the menu is printed and input() returns `typed`.
ReadInput(typed) ==
    /\ pc = "Listing"
    /\ prompts' = prompts + 1
    /\ reads' = reads + 1
    /\ line_read' = typed
    /\ user_input' = Strip(typed)

\* Line 98 raises (EOFError at end of input): line 149 ends the run.
InputFails ==
    /\ pc = "Listing"
    /\ prompts < MaxPrompts
    /\ prompts' = prompts + 1
    /\ message' = "unexpected_error"
    /\ pc' = AfterFailure
    /\ UNCHANGED <<packages_to_upgrade, line_read, user_input, invocations,
                   reads, returncode, initial_packages>>
    /\ UNCHANGED parseVars

\* Lines 100-102.
Cancel ==
    /\ \E typed \in Inputs :
          /\ ReadInput(typed)
          /\ IsCancel(Strip(typed))
    /\ message' = "canceled"
    /\ pc' = "Done"
    /\ UNCHANGED <<packages_to_upgrade, invocations, returncode,
                   initial_packages>>
    /\ UNCHANGED parseVars

\* Lines 104-114, and lines 146-150 when the call raises.
UpgradeAll ==
    /\ \E typed \in Inputs :
          /\ ReadInput(typed)
          /\ ~IsCancel(Strip(typed))
          /\ IsUpgradeAll(Strip(typed))
    /\ \E outcome \in Outcomes :
          /\ invocations' = Append(invocations, UpgradeAllCall(outcome))
          /\ IF outcome = "returned"
             THEN /\ \E status \in ExitStatuses :
                        /\ returncode' = status
                        /\ pc' = AfterUpgradeAll(status)
                  /\ message' = "upgrade_all_finished"
             ELSE /\ returncode' = returncode
                  /\ message' = FailureMessage(outcome)
                  /\ pc' = AfterFailure
    /\ UNCHANGED <<packages_to_upgrade, initial_packages>>
    /\ UNCHANGED parseVars

\* Mutant of AfterPop: the test of lines 136-138 left out.
AfterPopContinues(list) == "Listing"

\* Where the loop goes after line 134 (lines 136-138).
AfterPop(list) == IF list = <<>> THEN "Done" ELSE "Listing"

\* Lines 116-138, and lines 146-150 when the call raises.
UpgradeOne ==
    /\ \E typed \in Inputs :
          /\ ReadInput(typed)
          /\ ~IsCancel(Strip(typed))
          /\ ~IsUpgradeAll(Strip(typed))
          /\ ParsesAsInt(Strip(typed))
          /\ InRange(IntValue(Strip(typed)), packages_to_upgrade)
          /\ LET selection_index == IntValue(Strip(typed))
                 pkg_id == packages_to_upgrade[selection_index].id
             IN  \E outcome \in Outcomes :
                    /\ invocations' =
                          Append(invocations, UpgradeOneCall(pkg_id, outcome))
                    /\ IF outcome = "returned"
                       THEN /\ \E status \in ExitStatuses :
                                  /\ returncode' = status
                                  /\ packages_to_upgrade' =
                                        ListAfterUpgrade(packages_to_upgrade,
                                                         selection_index, status)
                            /\ message' =
                                  IF packages_to_upgrade' = <<>>
                                  THEN "all_upgraded"
                                  ELSE "upgrade_finished"
                            /\ pc' = AfterPop(packages_to_upgrade')
                       ELSE /\ returncode' = returncode
                            /\ packages_to_upgrade' = packages_to_upgrade
                            /\ message' = FailureMessage(outcome)
                            /\ pc' = AfterFailure
    /\ UNCHANGED initial_packages
    /\ UNCHANGED parseVars

\* Lines 117-118 and 140-141: an integer out of range.
InvalidOption ==
    /\ \E typed \in Inputs :
          /\ ReadInput(typed)
          /\ ~IsCancel(Strip(typed))
          /\ ~IsUpgradeAll(Strip(typed))
          /\ ParsesAsInt(Strip(typed))
          /\ ~InRange(IntValue(Strip(typed)), packages_to_upgrade)
    /\ prompts < MaxPrompts
    /\ message' = "invalid_option"
    /\ pc' = "Listing"
    /\ UNCHANGED <<packages_to_upgrade, invocations, returncode,
                   initial_packages>>
    /\ UNCHANGED parseVars

\* Lines 117 and 143-144: int() raises ValueError.
InvalidInput ==
    /\ \E typed \in Inputs :
          /\ ReadInput(typed)
          /\ ~IsCancel(Strip(typed))
          /\ ~IsUpgradeAll(Strip(typed))
          /\ ~ParsesAsInt(Strip(typed))
    /\ prompts < MaxPrompts
    /\ message' = "invalid_input"
    /\ pc' = "Listing"
    /\ UNCHANGED <<packages_to_upgrade, invocations, returncode,
                   initial_packages>>
    /\ UNCHANGED parseVars

Next ==
    \/ NotWindows
    \/ ListUpgradesFails
    \/ ListUpgradesEmpty
    \/ EnterLoop
    \/ InputFails
    \/ Cancel
    \/ UpgradeAll
    \/ UpgradeOne
    \/ InvalidOption
    \/ InvalidInput

Spec == Init /\ [][Next]_vars

-----------------------------------------------------------------------------
(* Properties of the selection loop, checked under Spec.                   *)

\* The last subprocess.run call made.
LastCall == invocations[Len(invocations)]

\* In this step input() returned a line.
LineTyped == pc = "Listing" /\ reads' = reads + 1

\* In this step a subprocess.run call was made and raised.
CallFailed ==
    /\ Len(invocations') = Len(invocations) + 1
    /\ invocations'[Len(invocations')].outcome # "returned"

\* In this step an upgrade call was made and returned.
UpgradeReturned ==
    /\ Len(invocations') = Len(invocations) + 1
    /\ invocations'[Len(invocations')].outcome = "returned"
    /\ invocations'[Len(invocations')].form \in {"one", "all"}

\* Once Done, nothing more happens: no call, no prompt.
DoneIsFinal ==
    pc = "Done" =>
        /\ pc' = "Done"
        /\ invocations' = invocations
        /\ prompts' = prompts
        /\ packages_to_upgrade' = packages_to_upgrade

\* list with its n-th entry left out, the others in order.
WithoutNth(list, n) ==
    [i \in 1..(Len(list) - 1) |-> IF i < n THEN list[i] ELSE list[i + 1]]

\* text is an integer literal whose value is a 1-based index of a list of
\* length len.
IsIndex(text, len) ==
    /\ ParsesAsInt(text)
    /\ 1 <= IntValue(text)
    /\ IntValue(text) <= len

InvalidDiagnostics == {"invalid_option", "invalid_input"}

\* C1: with a WorkingList of two or more entries and an input that parses as
\* an integer n in 1..L, a step whose call returns makes exactly one call,
\* `winget upgrade --id` of the n-th entry's id, leaves the list without
\* exactly that entry (order kept) and goes back to Listing.
C1_UpgradeOne ==
    [][ ( /\ LineTyped
          /\ Len(packages_to_upgrade) >= 2
          /\ IsIndex(line_read', Len(packages_to_upgrade))
          /\ ~CallFailed )
        => LET n == IntValue(line_read')
           IN  /\ invocations' =
                     Append(invocations,
                            [form |-> "one",
                             id |-> packages_to_upgrade[n].id,
                             outcome |-> "returned"])
               /\ packages_to_upgrade' = WithoutNth(packages_to_upgrade, n)
               /\ pc' = "Listing"
               /\ prompts' = prompts + 1 ]_vars

C1_Witness ==
    /\ pc = "Listing"
    /\ Len(initial_packages) = 3
    /\ initial_packages[2].id # initial_packages[3].id
    /\ reads = 1
    /\ line_read = <<"2">>
    /\ Len(invocations) = 2
    /\ LastCall = [form |-> "one", id |-> initial_packages[2].id,
                   outcome |-> "returned"]
    /\ packages_to_upgrade = <<initial_packages[1], initial_packages[3]>>

\* C2: on input "0" the loop makes exactly one call, `winget upgrade --all`,
\* and is Done at once, the WorkingList untouched; after Done no call and no
\* prompt follows.
C2_UpgradeAll ==
    [][ /\ ( ( /\ LineTyped
               /\ packages_to_upgrade # <<>>
               /\ line_read' = <<"0">> )
             => /\ Len(invocations') = Len(invocations) + 1
                /\ SubSeq(invocations', 1, Len(invocations)) = invocations
                /\ invocations'[Len(invocations')].form = "all"
                /\ pc' = "Done"
                /\ packages_to_upgrade' = packages_to_upgrade )
        /\ DoneIsFinal ]_vars

C2_Witness ==
    /\ pc = "Done"
    /\ line_read = <<"0">>
    /\ Len(packages_to_upgrade) >= 2
    /\ Len(invocations) = 2
    /\ LastCall.form = "all"
    /\ message = "upgrade_all_finished"

\* What a step on invalid input does: no call, the list as it was, a
\* diagnostic, and back to Listing for the next prompt.
RejectsInput ==
    /\ invocations' = invocations
    /\ packages_to_upgrade' = packages_to_upgrade
    /\ message' \in InvalidDiagnostics
    /\ pc' = "Listing"

\* C3 as stated: every typed line that is not "c"/"C", not "0" and not an
\* integer in 1..L is rejected.
C3_AsStated ==
    [][ ( /\ LineTyped
          /\ line_read' \notin {<<"c">>, <<"C">>, <<"0">>}
          /\ ~IsIndex(line_read', Len(packages_to_upgrade)) )
        => RejectsInput ]_vars

\* C3, amended: every typed line that, with the whitespace around it
\* removed, is not "c"/"C", not "0" and not an integer in 1..L is rejected.
C3_InvalidInput ==
    [][ ( /\ LineTyped
          /\ Strip(line_read') \notin {<<"c">>, <<"C">>, <<"0">>}
          /\ ~IsIndex(line_read', Len(packages_to_upgrade)) )
        => RejectsInput ]_vars

C3_Witness ==
    /\ pc = "Listing"
    /\ line_read = <<"5">>
    /\ reads = 1
    /\ message = "invalid_option"
    /\ Len(packages_to_upgrade) = 3
    /\ packages_to_upgrade = initial_packages
    /\ Len(invocations) = 1

\* C4: on input "c" or "C" the loop is Done with no call made and the
\* cancel message; after Done no call and no prompt follows.
C4_Cancel ==
    [][ /\ ( ( /\ LineTyped
               /\ line_read' \in {<<"c">>, <<"C">>} )
             => /\ pc' = "Done"
                /\ invocations' = invocations
                /\ packages_to_upgrade' = packages_to_upgrade
                /\ message' = "canceled" )
        /\ DoneIsFinal ]_vars

C4_Witness ==
    /\ pc = "Done"
    /\ line_read = <<"C">>
    /\ message = "canceled"
    /\ reads = 2
    /\ Len(invocations) = 1
    /\ packages_to_upgrade # <<>>

\* C5: with one entry left and input "1", a step whose call returns makes
\* exactly one call, `winget upgrade --id` of that entry's id, empties the
\* list and is Done; after Done no prompt follows.
C5_LastCandidate ==
    [][ /\ ( ( /\ LineTyped
               /\ Len(packages_to_upgrade) = 1
               /\ line_read' = <<"1">>
               /\ ~CallFailed )
             => /\ invocations' =
                      Append(invocations,
                             [form |-> "one",
                              id |-> packages_to_upgrade[1].id,
                              outcome |-> "returned"])
                /\ packages_to_upgrade' = <<>>
                /\ pc' = "Done" )
        /\ (pc = "Done" => prompts' = prompts) ]_vars

C5_Witness ==
    /\ pc = "Done"
    /\ Len(initial_packages) = 1
    /\ packages_to_upgrade = <<>>
    /\ line_read = <<"1">>
    /\ prompts = 1
    /\ Len(invocations) = 2
    /\ LastCall.id = initial_packages[1].id
    /\ message = "all_upgraded"

\* C6: when an upgrade call returns, the next list and the next position
\* are fixed by the list and the input alone, whatever the exit status:
\* Done and the list untouched for --all; the entry removed, and Listing
\* or Done as entries remain or not, for --id.
C6_ExitStatusIgnored ==
    [][ UpgradeReturned
        => /\ returncode' \in ExitStatuses
           /\ IF invocations'[Len(invocations')].form = "all"
              THEN /\ pc' = "Done"
                   /\ packages_to_upgrade' = packages_to_upgrade
              ELSE /\ packages_to_upgrade' =
                         WithoutNth(packages_to_upgrade, IntValue(line_read'))
                   /\ pc' = IF Len(packages_to_upgrade) = 1
                            THEN "Done" ELSE "Listing" ]_vars

C6_Witness ==
    /\ pc = "Listing"
    /\ returncode = "nonzero"
    /\ Len(invocations) = 2
    /\ LastCall.form = "one"
    /\ LastCall.outcome = "returned"
    /\ Len(packages_to_upgrade) = Len(initial_packages) - 1

C8_EmptyReport ==
    ( /\ invocations # <<>>
      /\ invocations[1].outcome = "returned"
      /\ initial_packages = <<>> )
    => /\ pc = "Done"
       /\ prompts = 0
       /\ Len(invocations) = 1
       /\ message = "no_upgrades_available"

C8_Witness ==
    /\ pc = "Done"
    /\ invocations = <<ListCall("returned")>>
    /\ initial_packages = <<>>
    /\ message = "no_upgrades_available"

-----------------------------------------------------------------------------
(* The parser on its own: one call of parse_winget_output on a report.     *)

InitParse ==
    /\ pc = "parse"
    /\ output \in Reports \cup {ExampleReport}
    /\ packages = <<>>
    /\ data_start_index = -1
    /\ packages_to_upgrade = <<>>
    /\ line_read = <<>>
    /\ user_input = <<>>
    /\ invocations = <<>>
    /\ prompts = 0
    /\ reads = 0
    /\ message = "none"
    /\ returncode = "none"
    /\ initial_packages = <<>>

\* parse_winget_output(output) runs to its return.
ParseReport ==
    /\ pc = "parse"
    /\ pc' = "parsed"
    /\ packages' = parse_winget_output(output)
    /\ data_start_index' = DataStartIndex(output)
    /\ UNCHANGED <<output, packages_to_upgrade, line_read, user_input,
                   invocations, prompts, reads, message, returncode,
                   initial_packages>>

NextParse == ParseReport

SpecParse == InitParse /\ [][NextParse]_vars

-----------------------------------------------------------------------------
(* Properties of the parser, checked under SpecParse.                      *)

\* The lines the parser walks over.
Lines == ReportLines(output)

\* A line whose trimmed text begins with "---" or with "====".
SeparatorOfCode(line) ==
    LET t == Strip(line)
    IN  \/ StartsWith(t, <<"-", "-", "-">>)
        \/ StartsWith(t, <<"=", "=", "=", "=">>)

\* A line whose trimmed text begins with three or more '-' or with three or
\* more '='.
SeparatorAsStated(line) ==
    LET t == Strip(line)
    IN  \/ StartsWith(t, <<"-", "-", "-">>)
        \/ StartsWith(t, <<"=", "=", "=">>)

\* The position of the first line of ls that Sep holds of, or -1.
Boundary(ls, Sep(_)) ==
    IF \E i \in 1..Len(ls) : Sep(ls[i])
    THEN CHOOSE i \in 1..Len(ls) :
            Sep(ls[i]) /\ \A j \in 1..(i - 1) : ~Sep(ls[j])
    ELSE -1

\* The fields of a row: its trimmed text split on runs of two or more
\* whitespace characters, each field trimmed.
Fields(line) ==
    LET parts == ReSplit(Strip(line))
    IN  [i \in 1..Len(parts) |-> Strip(parts[i])]

\* The fields of every line of ls.
AllFields(ls) == [j \in 1..Len(ls) |-> Fields(ls[j])]

\* Fields of a valid data row: five or more, name and id not empty.
ValidFields(fs) == Len(fs) >= 5 /\ fs[1] # <<>> /\ fs[2] # <<>>

BeginsWithFound(line) == StartsWith(Strip(line), <<"F", "o", "u", "n", "d">>)

\* The positions after k, in order, of the lines of ls that are valid data
\* rows; with skipFound, those that begin with "Found" are left out.
RECURSIVE ValidPositions(_, _, _, _)
ValidPositions(ls, fs, k, skipFound) ==
    IF k >= Len(ls) THEN <<>>
    ELSE LET rest == ValidPositions(ls, fs, k + 1, skipFound)
         IN  IF /\ ValidFields(fs[k + 1])
                /\ ~(skipFound /\ BeginsWithFound(ls[k + 1]))
             THEN <<k + 1>> \o rest
             ELSE rest

\* result holds one candidate per position of rows, in order, with the name
\* and id of the row there.
OnePerRow(result, fs, rows) ==
    /\ Len(result) = Len(rows)
    /\ \A i \in 1..Len(rows) :
          /\ result[i].name = fs[rows[i]][1]
          /\ result[i].id = fs[rows[i]][2]

\* C9 as stated: with a separator line, the parser returns one candidate
\* per valid row after it (five or more fields, name and id not empty), in
\* source order.
C9_AsStated ==
    pc = "parsed"
    => LET ls == Lines
           k  == Boundary(ls, SeparatorOfCode)
           fs == AllFields(ls)
       IN  k # -1 => OnePerRow(packages, fs, ValidPositions(ls, fs, k, FALSE))

\* C9, amended: with a separator line, the parser returns one candidate per
\* valid row after it that does not begin with "Found", in source order.
C9_RowCountAndOrder ==
    pc = "parsed"
    => LET ls == Lines
           k  == Boundary(ls, SeparatorOfCode)
           fs == AllFields(ls)
       IN  k # -1 => OnePerRow(packages, fs, ValidPositions(ls, fs, k, TRUE))

C9_Witness ==
    /\ pc = "parsed"
    /\ Lines = <<LineDash3, RowB, RowShort, RowA>>
    /\ Len(packages) = 2
    /\ packages[1].id = <<"B">>
    /\ packages[2].id = <<"A">>

\* Every candidate of result comes from a valid row of ls after position k
\* (none when k = -1).
OnlyFromLinesAfter(result, ls, k) ==
    /\ k = -1 => result = <<>>
    /\ Len(result) <= Len(ls) - k
    /\ LET fs == AllFields(ls)
       IN  \A i \in 1..Len(result) :
              \E j \in (k + 1)..Len(ls) :
                 /\ ValidFields(fs[j])
                 /\ result[i].name = fs[j][1]
                 /\ result[i].id = fs[j][2]

\* C10 as stated: the boundary is the first line whose trimmed text begins
\* with three or more '-' or three or more '=' ("===" included), and only
\* lines after it produce candidates.
C10_AsStated ==
    pc = "parsed"
    => LET ls == Lines
           k  == Boundary(ls, SeparatorAsStated)
       IN  /\ data_start_index = k
           /\ OnlyFromLinesAfter(packages, ls, k)

\* C10, amended: the boundary is the first line whose trimmed text begins
\* with three or more '-' or four or more '=' ("---" and "====" included,
\* "===" not), and only lines after it produce candidates.
C10_Separator ==
    pc = "parsed"
    => LET ls == Lines
           k  == Boundary(ls, SeparatorOfCode)
       IN  /\ data_start_index = k
           /\ OnlyFromLinesAfter(packages, ls, k)

C10_Witness ==
    /\ pc = "parsed"
    /\ Lines = <<RowA, LineEq3, LineEq4, RowB>>
    /\ data_start_index = 3
    /\ Len(packages) = 1
    /\ packages[1].id = <<"B">>

\* C11: a report with no separator line gives the empty sequence, whatever
\* its other lines are (valid data rows included).
C11_NoSeparator ==
    pc = "parsed"
    => LET ls == Lines
       IN  (\A i \in 1..Len(ls) : ~SeparatorOfCode(ls[i]))
           => /\ packages = <<>>
              /\ data_start_index = -1

C11_Witness ==
    /\ pc = "parsed"
    /\ Lines = <<RowA, LineEq3, RowB>>
    /\ packages = <<>>

\* ls with its j-th line deleted.
WithoutLine(ls, j) == SubSeq(ls, 1, j - 1) \o SubSeq(ls, j + 1, Len(ls))

\* C12: a line after the separator with fewer than five fields yields no
\* candidate, and the report with that line deleted parses to the same
\* candidates in the same order.
C12_ShortRowsIsolated ==
    pc = "parsed"
    => LET ls == Lines
           k  == Boundary(ls, SeparatorOfCode)
           fs == AllFields(ls)
       IN  k # -1
           => /\ Len(packages) <=
                    Cardinality({j \in (k + 1)..Len(ls) : Len(fs[j]) >= 5})
              /\ \A j \in (k + 1)..Len(ls) :
                    Len(fs[j]) < 5
                    => packages = parse_winget_output(JoinLines(WithoutLine(ls, j)))

C12_Witness ==
    /\ pc = "parsed"
    /\ Lines = <<LineDash3, RowA, RowShort, RowB>>
    /\ Len(packages) = 2
    /\ packages[1].id = <<"A">>
    /\ packages[2].id = <<"B">>

\* The fields of a row when its text is split as it stands, leading and
\* trailing whitespace included: each part trimmed.
RawFields(line) ==
    LET parts == ReSplit(line)
    IN  [i \in 1..Len(parts) |-> Strip(parts[i])]

\* The candidate made of the first four of the fields f.
CandidateOf(f) ==
    [name |-> f[1], id |-> f[2], version |-> f[3], available |-> f[4]]

\* result holds, for each position of rows in order, the candidate made of
\* the first four fields of the line there, FieldsOf giving a line's fields.
MapsFields(result, ls, rows, FieldsOf(_)) ==
    /\ Len(result) = Len(rows)
    /\ \A i \in 1..Len(rows) :
          LET f == FieldsOf(ls[rows[i]])
          IN  Len(f) >= 4 /\ result[i] = CandidateOf(f)

\* C13 as stated: the candidate of every accepted row is made of the trimmed
\* fields 0, 1, 2 and 3 of the row split on runs of two or more whitespace
\* characters.
C13_AsStated ==
    pc = "parsed"
    => LET ls == Lines
           k  == Boundary(ls, SeparatorOfCode)
           fs == AllFields(ls)
       IN  k # -1
           => MapsFields(packages, ls, ValidPositions(ls, fs, k, TRUE), RawFields)

\* C13, amended: the candidate of every accepted row is made of the trimmed
\* fields 0, 1, 2 and 3 of the row's trimmed text split on runs of two or
\* more whitespace characters; a single whitespace character splits nothing
\* and the fifth and later fields appear nowhere in the candidate.
C13_FieldMapping ==
    pc = "parsed"
    => LET ls == Lines
           k  == Boundary(ls, SeparatorOfCode)
           fs == AllFields(ls)
       IN  k # -1
           => MapsFields(packages, ls, ValidPositions(ls, fs, k, TRUE), Fields)

C13_Witness ==
    /\ pc = "parsed"
    /\ output = ExampleReport
    /\ packages = << [name      |-> <<"F", "o", "o", " ", "B", "a", "r">>,
                     id        |-> <<"F", "o", "o", "B", "a", "r", ".", "I", "d">>,
                     version   |-> <<"1", ".", "0">>,
                     available |-> <<"2", ".", "0">>] >>

-----------------------------------------------------------------------------
(* The parser and the selection loop together: a run of either one.        *)

InitAll == Init \/ InitParse

NextAll == Next \/ NextParse

SpecAll == InitAll /\ [][NextAll]_vars

\* Every candidate of list has a name and an id that are not empty.
AllNamed(list) ==
    \A i \in 1..Len(list) : list[i].name # <<>> /\ list[i].id # <<>>

\* C14: every candidate parse_winget_output returns, and every entry of the
\* working list in every state of the selection loop, has a non-empty name
\* and a non-empty id.
C14_CandidatesNamed ==
    /\ AllNamed(packages)
    /\ AllNamed(packages_to_upgrade)
    /\ AllNamed(initial_packages)
    /\ \A list \in ParsedLists : AllNamed(list)

\* The loop is past its first selection and still holds the candidate of the
\* indented row.
C14_Witness ==
    /\ pc = "Listing"
    /\ reads >= 1
    /\ Len(packages_to_upgrade) < Len(initial_packages)
    /\ \E i \in 1..Len(packages_to_upgrade) :
          /\ packages_to_upgrade[i].name = <<"b", " ", "c">>
          /\ packages_to_upgrade[i].id = <<"B">>

\* The run went into the selection loop (lines 84-144).
EnteredLoop == initial_packages # <<>>

\* The last line read, trimmed, is the cancel command.
LastInputCancel == reads > 0 /\ Lower(user_input) = <<"c">>

\* The last line read, trimmed, is "0" and the upgrade-all call was made.
LastInputUpgradeAll ==
    /\ reads > 0
    /\ user_input = <<"0">>
    /\ LastCall.form = "all"

\* The run was ended by the handlers of lines 146-150.
EndedByError == message \in {"winget_not_found", "unexpected_error"}

\* C15 as stated: a run that entered the loop and reached Done, no error
\* raised, has an empty WorkingList or a cancel command as its last input.
C15_AsStated ==
    (pc = "Done" /\ EnteredLoop /\ ~EndedByError)
    => (packages_to_upgrade = <<>> \/ LastInputCancel)

\* C15, amended: the loop runs only on a non-empty WorkingList, and a run
\* that entered the loop and reached Done has an empty WorkingList, or a
\* cancel command as its last input, or "0" as its last input followed by
\* the upgrade-all call, or was ended by an error.
C15_LoopExit ==
    /\ pc = "Listing" => packages_to_upgrade # <<>>
    /\ (pc = "Done" /\ EnteredLoop)
       => \/ packages_to_upgrade = <<>>
          \/ LastInputCancel
          \/ LastInputUpgradeAll
          \/ EndedByError

\* Cancelled after one upgrade, candidates remaining.
C15_Witness ==
    /\ pc = "Done"
    /\ message = "canceled"
    /\ LastInputCancel
    /\ packages_to_upgrade # <<>>
    /\ Len(packages_to_upgrade) < Len(initial_packages)

\* sub is full with some of its entries left out, the others in order.
RECURSIVE IsSubsequence(_, _)
IsSubsequence(sub, full) ==
    IF sub = <<>> THEN TRUE
    ELSE IF full = <<>> THEN FALSE
    ELSE IF Head(sub) = Head(full) THEN IsSubsequence(Tail(sub), Tail(full))
    ELSE IsSubsequence(sub, Tail(full))

\* The positions of the `winget upgrade --id` calls made so far.
UpgradeOneCalls == {i \in 1..Len(invocations) : invocations[i].form = "one"}

\* Those that returned.
UpgradeOneReturns == {i \in UpgradeOneCalls : invocations[i].outcome = "returned"}

\* The number of entries of list with id x.
CountId(list, x) == Cardinality({i \in 1..Len(list) : list[i].id = x})

-----------------------------------------------------------------------------
(* Termination. input() blocks until a line or the end of input arrives and
   subprocess.run blocks until the child exits or the call raises: a run
   that is not Done takes its next step.                                   *)

SpecFair == Spec /\ WF_vars(Next)

\* The lines read so far that were valid selections: one per upgrade call
\* made, and the cancel command.
ValidSelections ==
    Cardinality({i \in 1..Len(invocations) :
                    invocations[i].form \in {"one", "all"}})
        + (IF message = "canceled" THEN 1 ELSE 0)

\* After as many valid selections as the parsed list has candidates the run
\* is Done.
DoneWithinN ==
    /\ ValidSelections <= Len(initial_packages)
    /\ pc = "Listing" => ValidSelections < Len(initial_packages)

ListCalls == {i \in 1..Len(invocations) : invocations[i].form = "list"}

\* The run went past the platform check of lines 54-56.
PassedPlatformCheck == pc # "Start" /\ message # "not_windows"

\* C18 as stated: every run that is Done has made the list call exactly once.
C18_AsStated == pc = "Done" => Cardinality(ListCalls) = 1

\* The list call is the first call of the run and is made nowhere else; it
\* precedes the first prompt, and a run past the platform check has made it.
ListCallFirstAndOnly ==
    /\ ListCalls \subseteq {1}
    /\ invocations # <<>> => ListCalls = {1}
    /\ prompts > 0 => ListCalls = {1}
    /\ PassedPlatformCheck => ListCalls = {1}
    /\ ~PassedPlatformCheck => invocations = <<>>

\* No call of any form in a step taken in the loop is the list call, and no
\* call is made once Done.
NoRefreshNoCallAfterDone ==
    /\ pc = "Listing" /\ invocations' # invocations
          => /\ Len(invocations') = Len(invocations) + 1
             /\ invocations'[Len(invocations')].form \in {"one", "all"}
    /\ pc = "Done" => invocations' = invocations /\ pc' = "Done"

\* C18, amended: a run that passes the platform check makes the list call
\* exactly once, as its first call and before its first prompt; a run that
\* does not makes no call; the loop never makes the list call, and no call
\* is made after Done.
C18_FetchedOnce == []ListCallFirstAndOnly /\ [][NoRefreshNoCallAfterDone]_vars

\* Done after the list call and two upgrades.
C18_Witness ==
    /\ pc = "Done"
    /\ ListCalls = {1}
    /\ Len(invocations) = 3
    /\ invocations[2].form = "one"
    /\ prompts >= 2

-----------------------------------------------------------------------------
(* Windows/WingetBasic.py: run_winget_upgrade_manager, which lists the
   upgrades and asks once whether to install all of them.                  *)

\* needle in text (line 35): text holds needle as a contiguous part.
Contains(text, needle) ==
    \E i \in 0..(Len(text) - Len(needle)) :
       SubSeq(text, i + 1, i + Len(needle)) = needle

\* "No upgrades available"
NoUpgradesText == <<"N", "o", " ", "u", "p", "g", "r", "a", "d", "e", "s", " ", "a", "v", "a", "i", "l", "a", "b", "l", "e">>

\* "No upgrades available."
LineNoUpgrades == NoUpgradesText \o <<".">>
\* "no upgrades available": the same in lower case
LineNoUpgradesLower == Lower(NoUpgradesText)
\* "No upgrades": the first two words only
LineNoUpgradesCut == SubSeq(NoUpgradesText, 1, 11)

BasicLineVocab == {LineNoUpgrades, LineNoUpgradesLower, LineNoUpgradesCut, RowA}

\* result.stdout of line 21: every report of at most MaxBasicLines lines.
BasicStdouts == {JoinLines(ls) : ls \in SeqsUpTo(BasicLineVocab, MaxBasicLines)}

\* The lines a user may type at the prompt of line 52.
BasicInputs ==
    { <<"y">>, <<"Y">>, <<"y", "e", "s">>, <<" ", "Y", "E", "s", " ">>,
      <<"n">>, <<"N", "o">>, <<"n", "o", "\t">>,
      <<>>, <<"y", "e">>, <<"y", " ", "e", "s">>, <<"n", "o", "n">>,
      <<"0">>, <<"c">> }

\* input(...).strip().lower() (line 52)
BasicNormalize(typed) == Lower(Strip(typed))

\* Mutant of IsYes: any answer that begins with "y".
IsYesByFirstLetter(inp) == inp # <<>> /\ inp[1] = "y"

\* user_input in ['yes', 'y'] (line 54)
IsYes(inp) == inp \in {<<"y", "e", "s">>, <<"y">>}

\* user_input in ['no', 'n'] (line 67)
IsNo(inp) == inp \in {<<"n", "o">>, <<"n">>}

\* ['winget', 'upgrade'] (lines 21-27)
BasicListCall(outcome) == [form |-> "list", id |-> <<>>, outcome |-> outcome]

\* ['winget', 'upgrade', '--all', '--accept-package-agreements',
\*  '--accept-source-agreements'] (lines 59-63)
BasicUpgradeAllCall(outcome) ==
    [form |-> "all_accept", id |-> <<>>, outcome |-> outcome]

InitBasic ==
    /\ pc = "BasicStart"
    /\ packages_to_upgrade = <<>>
    /\ line_read = <<>>
    /\ user_input = <<>>
    /\ invocations = <<>>
    /\ prompts = 0
    /\ reads = 0
    /\ message = "none"
    /\ returncode = "none"
    /\ initial_packages = <<>>
    /\ output = <<>>
    /\ packages = <<>>
    /\ data_start_index = -1

\* What WingetBasic never touches.
basicUnused == <<packages_to_upgrade, initial_packages, packages, data_start_index>>

\* Lines 11-13: not on Windows.
BasicNotWindows ==
    /\ pc = "BasicStart"
    /\ pc' = "Done"
    /\ message' = "not_windows"
    /\ UNCHANGED <<line_read, user_input, invocations, prompts, reads,
                   returncode, output>>
    /\ UNCHANGED basicUnused

\* Lines 21-27 raise: the handlers of lines 75-79 end the run.
BasicListFails ==
    /\ pc = "BasicStart"
    /\ \E outcome \in Outcomes \ {"returned"} :
          /\ invocations' = Append(invocations, BasicListCall(outcome))
          /\ message' = FailureMessage(outcome)
    /\ pc' = "Done"
    /\ UNCHANGED <<line_read, user_input, prompts, reads, returncode, output>>
    /\ UNCHANGED basicUnused

\* Lines 21-39: the report holds "No upgrades available".
BasicNoUpgrades ==
    /\ pc = "BasicStart"
    /\ \E stdout \in BasicStdouts :
          /\ Contains(stdout, NoUpgradesText)
          /\ output' = stdout
    /\ invocations' = Append(invocations, BasicListCall("returned"))
    /\ message' = "no_upgrades_available"
    /\ pc' = "Done"
    /\ UNCHANGED <<line_read, user_input, prompts, reads, returncode>>
    /\ UNCHANGED basicUnused

\* Lines 21-48: the report does not hold it; the question is printed.
BasicAsk ==
    /\ pc = "BasicStart"
    /\ \E stdout \in BasicStdouts, stderr \in StderrKinds :
          /\ ~Contains(stdout, NoUpgradesText)
          /\ output' = stdout
          /\ message' = IF ShowsWarning(stderr) THEN "warning" ELSE "question"
    /\ invocations' = Append(invocations, BasicListCall("returned"))
    /\ pc' = "Confirm"
    /\ UNCHANGED <<line_read, user_input, prompts, reads, returncode>>
    /\ UNCHANGED basicUnused

\* Line 52: input() returns `typed`.
BasicRead(typed) ==
    /\ pc = "Confirm"
    /\ prompts' = prompts + 1
    /\ reads' = reads + 1
    /\ line_read' = typed
    /\ user_input' = BasicNormalize(typed)
    /\ output' = output
    /\ UNCHANGED basicUnused

\* Line 52 raises (EOFError at end of input): line 78 ends the run.
BasicInputFails ==
    /\ pc = "Confirm"
    /\ prompts < MaxPrompts
    /\ prompts' = prompts + 1
    /\ message' = "unexpected_error"
    /\ pc' = "Done"
    /\ UNCHANGED <<line_read, user_input, invocations, reads, returncode,
                   output>>
    /\ UNCHANGED basicUnused

\* Lines 54-65, and lines 75-79 when the call raises.
BasicYes ==
    /\ \E typed \in BasicInputs :
          /\ BasicRead(typed)
          /\ IsYes(BasicNormalize(typed))
    /\ \E outcome \in Outcomes :
          /\ invocations' = Append(invocations, BasicUpgradeAllCall(outcome))
          /\ IF outcome = "returned"
             THEN /\ \E status \in ExitStatuses : returncode' = status
                  /\ message' = "upgrade_all_finished"
             ELSE /\ returncode' = returncode
                  /\ message' = FailureMessage(outcome)
    /\ pc' = "Done"

\* Lines 67-70.
BasicNo ==
    /\ \E typed \in BasicInputs :
          /\ BasicRead(typed)
          /\ ~IsYes(BasicNormalize(typed))
          /\ IsNo(BasicNormalize(typed))
    /\ message' = "canceled"
    /\ pc' = "Done"
    /\ UNCHANGED <<invocations, returncode>>

\* Lines 72-73: the question is asked again.
BasicInvalid ==
    /\ \E typed \in BasicInputs :
          /\ BasicRead(typed)
          /\ ~IsYes(BasicNormalize(typed))
          /\ ~IsNo(BasicNormalize(typed))
    /\ prompts < MaxPrompts
    /\ message' = "invalid_input"
    /\ pc' = "Confirm"
    /\ UNCHANGED <<invocations, returncode>>

NextBasic ==
    \/ BasicNotWindows
    \/ BasicListFails
    \/ BasicNoUpgrades
    \/ BasicAsk
    \/ BasicInputFails
    \/ BasicYes
    \/ BasicNo
    \/ BasicInvalid

SpecBasic == InitBasic /\ [][NextBasic]_vars

-----------------------------------------------------------------------------
(* Properties of WingetBasic, checked under SpecBasic.                     *)

\* The positions of the upgrade-all calls made so far.
BasicUpgradeCalls ==
    {i \in 1..Len(invocations) : invocations[i].form # "list"}

YesAnswers == {<<"y", "e", "s">>, <<"y">>}

NoAnswers == {<<"n", "o">>, <<"n">>}

\* The line read in this step, trimmed and in lower case.
AnswerTyped == Lower(Strip(line_read'))

\* At most one upgrade call, the last call of a finished run whose last
\* answer was yes; a report that holds "No upgrades available" ends the run
\* with no prompt and no upgrade call.
BasicUpgradeOnlyOnYes ==
    /\ Cardinality(BasicUpgradeCalls) <= 1
    /\ \A i \in BasicUpgradeCalls :
          /\ i = Len(invocations)
          /\ invocations[i].form = "all_accept"
          /\ pc = "Done"
          /\ reads > 0
          /\ Lower(Strip(line_read)) \in YesAnswers
    /\ Contains(output, NoUpgradesText)
          => /\ pc = "Done"
             /\ prompts = 0
             /\ BasicUpgradeCalls = {}
             /\ message = "no_upgrades_available"

\* What a step does with the answer it reads: yes makes the upgrade-all call
\* and ends the run, no ends the run with no call, anything else makes no
\* call and asks again; no call is made in any other step once the question
\* is asked, and none after Done.
BasicAnswerStep ==
    /\ pc = "Confirm" /\ reads' = reads + 1
          => /\ AnswerTyped \in YesAnswers
                   => /\ Len(invocations') = Len(invocations) + 1
                      /\ invocations'[Len(invocations')].form = "all_accept"
                      /\ pc' = "Done"
             /\ AnswerTyped \in NoAnswers
                   => /\ invocations' = invocations
                      /\ message' = "canceled"
                      /\ pc' = "Done"
             /\ AnswerTyped \notin (YesAnswers \cup NoAnswers)
                   => /\ invocations' = invocations
                      /\ message' = "invalid_input"
                      /\ pc' = "Confirm"
    /\ pc = "Confirm" /\ reads' = reads => invocations' = invocations
    /\ pc = "Done" => invocations' = invocations /\ pc' = "Done"

\* C19: WingetBasic makes the upgrade-all call at most once, only in the step
\* that reads "yes" or "y" (trimmed, any case), and then ends; "no" or "n"
\* ends the run with no upgrade call; any other line makes no call and asks
\* again; a report that holds "No upgrades available" ends the run before
\* any prompt and with no upgrade call.
C19_BasicConfirmation == []BasicUpgradeOnlyOnYes /\ [][BasicAnswerStep]_vars

\* " YEs " typed after a line that was neither yes nor no: the upgrade-all
\* call made and returned.
C19_Witness ==
    /\ pc = "Done"
    /\ line_read = <<" ", "Y", "E", "s", " ">>
    /\ reads = 2
    /\ Len(invocations) = 2
    /\ invocations[2] = BasicUpgradeAllCall("returned")
    /\ message = "upgrade_all_finished"

====
